---- MODULE Spec2Model ----
(***************************************************************************)
(* Model of duo/src/arrow.rs: the conversion of Span and Log rows into     *)
(* Arrow record batches and the decoding of record batches back to rows.   *)
(*                                                                         *)
(* A value, at every level, is a record [t, n, s]: t is its type tag, n    *)
(* its number (0 when it has none) and s its text as a sequence of tokens  *)
(* (<<>> when it has none).  A float carries its number in halves, so      *)
(* F64(3) is 1.5 and F64(6) is 3.0.                                        *)
(*   Rust and Arrow values : "u64" "i64" "f64" "utf8" "null"               *)
(*   serde_json values     : "int" "float" "str" "null" "unrepr"           *)
(* A map (HashMap, serde_json::Map, a row-document) is a set of entries    *)
(* [k, v] with distinct keys.                                              *)
(***************************************************************************)
EXTENDS Integers, Sequences, FiniteSets, TLC

VARIABLES pc, op, spans, logs, seed, result, batches, target, decoded

vars == <<pc, op, spans, logs, seed, result, batches, target, decoded>>

(* ------------------------------ values -------------------------------- *)

Val(t, n, s) == [t |-> t, n |-> n, s |-> s]

Null == Val("null", 0, <<>>)

U64(n) == Val("u64", n, <<>>)

I64(n) == Val("i64", n, <<>>)

F64(n) == Val("f64", n, <<>>)

Utf8(s) == Val("utf8", 0, s)

JInt(n) == Val("int", n, <<>>)

JFloat(n) == Val("float", n, <<>>)

JStr(s) == Val("str", 0, s)

(* A value serde_json cannot represent: to_string returns Err on it. *)
Unrepresentable == Val("unrepr", 0, <<>>)

(* ------------------------------- maps --------------------------------- *)

Entry(key, value) == [k |-> key, v |-> value]

Keys(map) == {e.k : e \in map}

Get(map, key) == IF key \in Keys(map) THEN (CHOOSE e \in map : e.k = key).v ELSE Null

(* Map::insert: the new value replaces the one the key had. *)
Insert(map, key, value) == {e \in map : e.k # key} \cup {Entry(key, value)}

(* Map::extend: every entry of other is inserted into map. *)
Extend(map, other) == {e \in map : e.k \notin Keys(other)} \cup other

(* ------------------------------ schemas ------------------------------- *)

Field(name, data_type, nullable) == [name |-> name, data_type |-> data_type, nullable |-> nullable]

(* schema_span with tags declared not nullable. *)
schema_span_tags_not_null ==
    << Field("id", "UInt64", FALSE),
       Field("parent_id", "UInt64", TRUE),
       Field("trace_id", "UInt64", FALSE),
       Field("name", "Utf8", FALSE),
       Field("process_id", "Utf8", FALSE),
       Field("start", "Int64", FALSE),
       Field("end", "Int64", TRUE),
       Field("tags", "Utf8", FALSE) >>

schema_span ==
    << Field("id", "UInt64", FALSE),
       Field("parent_id", "UInt64", TRUE),
       Field("trace_id", "UInt64", FALSE),
       Field("name", "Utf8", FALSE),
       Field("process_id", "Utf8", FALSE),
       Field("start", "Int64", FALSE),
       Field("end", "Int64", TRUE),
       Field("tags", "Utf8", TRUE) >>

(* schema_log with level and message in the other order. *)
schema_log_message_first ==
    << Field("process_id", "Utf8", FALSE),
       Field("time", "Int64", FALSE),
       Field("trace_id", "UInt64", TRUE),
       Field("span_id", "UInt64", TRUE),
       Field("message", "Utf8", TRUE),
       Field("level", "Utf8", FALSE) >>

schema_log ==
    << Field("process_id", "Utf8", FALSE),
       Field("time", "Int64", FALSE),
       Field("trace_id", "UInt64", TRUE),
       Field("span_id", "UInt64", TRUE),
       Field("level", "Utf8", FALSE),
       Field("message", "Utf8", TRUE) >>

FieldNames(schema) == {schema[j].name : j \in 1..Len(schema)}

(* ------------------------------ batches ------------------------------- *)

(* A record batch: its schema and one array per field. *)
Batch(schema, columns) == [schema |-> schema, columns |-> columns]

NoBatch == Batch(<<>>, <<>>)

NumRows(b) == IF Len(b.columns) = 0 THEN 0 ELSE Len(b.columns[1])

(* The outcome of an encoder call: Ok(batch), Err(error) returned to the   *)
(* caller, or a panic that unwinds through the caller.                     *)
(* stage names the call that failed, field the column or key its message   *)
(* names ("" when it names none).                                          *)
Ok(b) == [kind |-> "Ok", batch |-> b, stage |-> "", field |-> ""]

Err(stage, field) == [kind |-> "Err", batch |-> NoBatch, stage |-> stage, field |-> field]

Panic(stage, field) == [kind |-> "Panic", batch |-> NoBatch, stage |-> stage, field |-> field]

NoResult == [kind |-> "None", batch |-> NoBatch, stage |-> "", field |-> ""]

ColumnType(data_type) ==
    CASE data_type = "UInt64" -> "u64"
      [] data_type = "Int64" -> "i64"
      [] data_type = "Float64" -> "f64"
      [] OTHER -> "utf8"

(* RecordBatch::new_empty: one empty array per field of the schema. *)
new_empty(schema) == Batch(schema, [j \in 1..Len(schema) |-> <<>>])

(* RecordBatch::try_new: the columns must match the schema in number, length, *)
(* type, and hold no null where the field is not nullable.                 *)
try_new(schema, columns) ==
    IF Len(columns) # Len(schema)
    THEN Err("batch", "")
    ELSE LET bad == {j \in 1..Len(schema) :
                        \/ Len(columns[j]) # Len(columns[1])
                        \/ \E i \in 1..Len(columns[j]) :
                              \/ columns[j][i] = Null /\ ~schema[j].nullable
                              \/ /\ columns[j][i] # Null
                                 /\ columns[j][i].t # ColumnType(schema[j].data_type)}
         IN  IF bad = {}
             THEN Ok(Batch(schema, columns))
             ELSE Err("batch", schema[CHOOSE j \in bad : \A h \in bad : j <= h].name)

(* --------------------------- span encoder ----------------------------- *)

Digits == <<"0", "1", "2", "3", "4", "5", "6", "7", "8", "9">>

RECURSIVE Decimal(_)
Decimal(n) ==
    IF n < 10 THEN <<Digits[n + 1]>>
    ELSE Decimal(n \div 10) \o <<Digits[(n % 10) + 1]>>

(* The JSON text of a scalar, as tokens. *)
WriteScalar(v) ==
    CASE v.t = "int" -> Decimal(v.n)
      [] v.t = "float" -> Decimal(v.n \div 2) \o <<".", IF v.n % 2 = 1 THEN "5" ELSE "0">>
      [] v.t = "str" -> <<"\"">> \o v.s \o <<"\"">>
      [] OTHER -> <<"null">>

(* The keys of a HashMap come out in the order its hasher gives them, which *)
(* differs from one run to the next: seed picks the order.                 *)
Seeds == {"s0", "s1"}

HashOrder(sd) == IF sd = "s0" THEN <<"x", "y">> ELSE <<"y", "x">>

RECURSIVE WriteEntries(_, _, _)
WriteEntries(map, order, first) ==
    IF order = <<>> THEN <<>>
    ELSE IF Head(order) \notin Keys(map) THEN WriteEntries(map, Tail(order), first)
    ELSE (IF first THEN <<>> ELSE <<",">>)
         \o <<"\"", Head(order), "\"", ":">>
         \o WriteScalar(Get(map, Head(order)))
         \o WriteEntries(map, Tail(order), FALSE)

(* serde_json::to_string(&span.tags): Err when a value is not representable, *)
(* else the JSON object as one string.                                     *)
to_string(tags, sd) ==
    IF \E e \in tags : e.v.t = "unrepr"
    THEN [ok |-> FALSE, s |-> <<>>]
    ELSE [ok |-> TRUE, s |-> <<"{">> \o WriteEntries(tags, HashOrder(sd), TRUE) \o <<"}">>]

start_as_micros(span) == span.start

end_as_micros(span) == span.end

(* convert_span_to_record_batch pushing the start time as the end time. *)
convert_span_end_from_start(rows, sd) ==
    LET span_ids == [i \in 1..Len(rows) |-> rows[i].id]
        parent_ids == [i \in 1..Len(rows) |-> rows[i].parent_id]
        trace_ids == [i \in 1..Len(rows) |-> rows[i].trace_id]
        names == [i \in 1..Len(rows) |-> rows[i].name]
        process_ids == [i \in 1..Len(rows) |-> rows[i].process_id]
        start_times == [i \in 1..Len(rows) |-> start_as_micros(rows[i])]
        end_times == [i \in 1..Len(rows) |-> start_as_micros(rows[i])]
        tags_list == [i \in 1..Len(rows) |-> Utf8(to_string(rows[i].tags, sd).s)]
        failed == {i \in 1..Len(rows) : ~to_string(rows[i].tags, sd).ok}
    IN  IF failed # {}
        THEN Panic("to_string", "tags")
        ELSE IF Len(span_ids) = 0
        THEN Ok(new_empty(schema_span))
        ELSE try_new(schema_span,
                     << span_ids, parent_ids, trace_ids, names,
                        process_ids, start_times, end_times, tags_list >>)

convert_span_to_record_batch(rows, sd) ==
    LET span_ids == [i \in 1..Len(rows) |-> rows[i].id]
        parent_ids == [i \in 1..Len(rows) |-> rows[i].parent_id]
        trace_ids == [i \in 1..Len(rows) |-> rows[i].trace_id]
        names == [i \in 1..Len(rows) |-> rows[i].name]
        process_ids == [i \in 1..Len(rows) |-> rows[i].process_id]
        start_times == [i \in 1..Len(rows) |-> start_as_micros(rows[i])]
        end_times == [i \in 1..Len(rows) |-> end_as_micros(rows[i])]
        tags_list == [i \in 1..Len(rows) |-> Utf8(to_string(rows[i].tags, sd).s)]
        failed == {i \in 1..Len(rows) : ~to_string(rows[i].tags, sd).ok}
    IN  IF failed # {}
        THEN Panic("to_string", "tags")
        ELSE IF Len(span_ids) = 0
        THEN Ok(new_empty(schema_span))
        ELSE try_new(schema_span,
                     << span_ids, parent_ids, trace_ids, names,
                        process_ids, start_times, end_times, tags_list >>)

(* ---------------------------- log encoder ----------------------------- *)

(* serde_json::Value::from, for the types of a Log's fixed fields. *)
Into(v) ==
    CASE v.t \in {"u64", "i64"} -> JInt(v.n)
      [] v.t = "utf8" -> JStr(v.s)
      [] OTHER -> Null

as_micros(log) == log.time

(* Document without the extend: the row's fields are left out. *)
Document_without_fields(log) ==
    LET time == as_micros(log)
        m1 == Insert({}, "process_id", Into(log.process_id))
        m2 == Insert(m1, "span_id", Into(log.span_id))
        m3 == Insert(m2, "trace_id", Into(log.trace_id))
        m4 == Insert(m3, "level", Into(log.level))
        m5 == Insert(m4, "time", Into(time))
    IN  Insert(m5, "message", Into(log.message))

(* The row-document of one log: the six fixed entries, then the row's      *)
(* fields on top of them when it has any.                                  *)
Document(log) ==
    LET time == as_micros(log)
        m1 == Insert({}, "process_id", Into(log.process_id))
        m2 == Insert(m1, "span_id", Into(log.span_id))
        m3 == Insert(m2, "trace_id", Into(log.trace_id))
        m4 == Insert(m3, "level", Into(log.level))
        m5 == Insert(m4, "time", Into(time))
        map == Insert(m5, "message", Into(log.message))
        field_map == log.fields
    IN  IF field_map # {} THEN Extend(map, field_map) ELSE map

(* A serde_json::Map is read in the order of its keys. *)
SortedKeys == <<"count", "level", "time", "trace_id", "user">>

ScalarType(v) ==
    CASE v.t = "int" -> "Int64"
      [] v.t = "float" -> "Float64"
      [] v.t = "str" -> "Utf8"
      [] OTHER -> "Null"

Range(seq) == {seq[j] : j \in 1..Len(seq)}

(* One value of one key seen: the key's set of types, kept in the order    *)
(* the keys and the types were first seen.                                 *)
Observe(acc, key, ty) ==
    IF \E j \in 1..Len(acc) : acc[j].name = key
    THEN [j \in 1..Len(acc) |->
            IF acc[j].name = key /\ ty \notin Range(acc[j].types)
            THEN [acc[j] EXCEPT !.types = Append(@, ty)]
            ELSE acc[j]]
    ELSE Append(acc, [name |-> key, types |-> <<ty>>])

RECURSIVE ObserveDocument(_, _, _)
ObserveDocument(acc, doc, order) ==
    IF order = <<>> THEN acc
    ELSE ObserveDocument(
            IF Head(order) \in Keys(doc)
            THEN Observe(acc, Head(order), ScalarType(Get(doc, Head(order))))
            ELSE acc,
            doc, Tail(order))

RECURSIVE ObserveAll(_, _)
ObserveAll(acc, docs) ==
    IF docs = <<>> THEN acc
    ELSE ObserveAll(ObserveDocument(acc, Head(docs), SortedKeys), Tail(docs))

(* The type two observed scalar types are coerced to. *)
Coerce(l, r) ==
    CASE l = "Null" -> r
      [] r = "Null" -> l
      [] l = "Boolean" /\ r = "Boolean" -> "Boolean"
      [] l = "Int64" /\ r = "Int64" -> "Int64"
      [] l \in {"Int64", "Float64"} /\ r \in {"Int64", "Float64"} -> "Float64"
      [] OTHER -> "Utf8"

RECURSIVE coerce_data_type(_)
coerce_data_type(types) ==
    IF Len(types) = 1 THEN types[1]
    ELSE Coerce(coerce_data_type(SubSeq(types, 1, Len(types) - 1)), types[Len(types)])

(* infer_json_schema_from_iterator over documents of scalars: one nullable *)
(* field per key, of the type its values coerce to.  It does not fail on   *)
(* scalars of different types.                                             *)
infer_json_schema_from_iterator(docs) ==
    LET seen == ObserveAll(<<>>, docs)
    IN  [j \in 1..Len(seen) |-> Field(seen[j].name, coerce_data_type(seen[j].types), TRUE)]

(* Field::try_merge into the schema built so far: a field of a new name is *)
(* appended; one of a known name must have the same type, and makes the    *)
(* field nullable when it is.                                              *)
MergeField(acc, f) ==
    IF ~acc.ok THEN acc
    ELSE IF \E j \in 1..Len(acc.schema) : acc.schema[j].name = f.name
    THEN LET j == CHOOSE h \in 1..Len(acc.schema) : acc.schema[h].name = f.name
         IN  IF acc.schema[j].data_type # f.data_type
             THEN [ok |-> FALSE, schema |-> acc.schema, field |-> f.name]
             ELSE [acc EXCEPT !.schema[j].nullable = @ \/ f.nullable]
    ELSE [acc EXCEPT !.schema = Append(@, f)]

RECURSIVE MergeFields(_, _)
MergeFields(acc, fields) ==
    IF fields = <<>> THEN acc
    ELSE MergeFields(MergeField(acc, Head(fields)), Tail(fields))

(* Schema::try_merge of two schemas. *)
try_merge(first, second) ==
    MergeFields([ok |-> TRUE, schema |-> <<>>, field |-> ""], first \o second)

(* The decoder's reading of one JSON value into a column of data_type,     *)
(* without coerce_primitive: a string column takes only strings, a number  *)
(* column numbers; an integer column truncates a fraction.                 *)
DecodeCell(data_type, v) ==
    CASE v.t = "null" -> [ok |-> TRUE, v |-> Null]
      [] data_type = "Utf8" ->
            IF v.t = "str" THEN [ok |-> TRUE, v |-> Utf8(v.s)] ELSE [ok |-> FALSE, v |-> Null]
      [] data_type = "Float64" ->
            IF v.t = "int" THEN [ok |-> TRUE, v |-> F64(2 * v.n)]
            ELSE IF v.t = "float" THEN [ok |-> TRUE, v |-> F64(v.n)]
            ELSE [ok |-> FALSE, v |-> Null]
      [] data_type \in {"Int64", "UInt64"} ->
            IF v.t = "int" THEN [ok |-> TRUE, v |-> Val(ColumnType(data_type), v.n, <<>>)]
            ELSE IF v.t = "float"
            THEN [ok |-> TRUE, v |-> Val(ColumnType(data_type), v.n \div 2, <<>>)]
            ELSE [ok |-> FALSE, v |-> Null]
      [] OTHER -> [ok |-> FALSE, v |-> Null]

(* decoder.serialize(&data) then decoder.flush(): None when no row was     *)
(* given; else every column is read from the documents by its field's      *)
(* name, an absent key as null.  The first field that cannot be read, or   *)
(* is null where not nullable, is the error's field.                       *)
flush(schema, data) ==
    IF Len(data) = 0 THEN [some |-> FALSE, res |-> NoResult]
    ELSE LET cell(j, i) == DecodeCell(schema[j].data_type, Get(data[i], schema[j].name))
             bad == {j \in 1..Len(schema) :
                        \E i \in 1..Len(data) :
                            \/ ~cell(j, i).ok
                            \/ cell(j, i).v = Null /\ ~schema[j].nullable}
         IN  [some |-> TRUE,
              res |-> IF bad # {}
                      THEN Err("decode", schema[CHOOSE j \in bad : \A h \in bad : j <= h].name)
                      ELSE Ok(Batch(schema,
                                    [j \in 1..Len(schema) |->
                                        [i \in 1..Len(data) |-> cell(j, i).v]]))]

RECURSIVE NonEmptyFields(_)
NonEmptyFields(rows) ==
    IF rows = <<>> THEN <<>>
    ELSE (IF Head(rows).fields # {} THEN <<Head(rows).fields>> ELSE <<>>)
         \o NonEmptyFields(Tail(rows))

convert_log_to_record_batch(rows) ==
    LET data == [i \in 1..Len(rows) |-> Document(rows[i])]
        fields == NonEmptyFields(rows)
        inferred_field_schema == infer_json_schema_from_iterator(fields)
        merged == try_merge(schema_log, inferred_field_schema)
        flushed == flush(merged.schema, data)
    IN  IF ~merged.ok THEN Panic("try_merge", merged.field)
        ELSE IF ~flushed.some THEN Panic("flush", "")
        ELSE flushed.res

(* ------------------------------ decoder ------------------------------- *)

(* The JSON value the writer gives for a cell that is not null. *)
ToJson(cell) ==
    CASE cell.t \in {"u64", "i64"} -> JInt(cell.n)
      [] cell.t = "f64" -> JFloat(cell.n)
      [] OTHER -> JStr(cell.s)

(* The row-document of row i of a batch: one entry per column, by the      *)
(* column's name; a null cell gives no entry.                              *)
RowDocument(b, i) ==
    {Entry(b.schema[j].name, ToJson(b.columns[j][i])) :
        j \in {h \in 1..Len(b.schema) : b.columns[h][i] # Null}}

(* write_batches writing the last batch first. *)
RECURSIVE write_batches_last_first(_)
write_batches_last_first(bs) ==
    IF bs = <<>> THEN <<>>
    ELSE write_batches_last_first(Tail(bs))
         \o [i \in 1..NumRows(Head(bs)) |-> RowDocument(Head(bs), i)]

RECURSIVE write_batches(_)
write_batches(bs) ==
    IF bs = <<>> THEN <<>>
    ELSE [i \in 1..NumRows(Head(bs)) |-> RowDocument(Head(bs), i)] \o write_batches(Tail(bs))

(* Reading JSON text back: a run of digits, then a scalar, then the        *)
(* entries of an object up to its closing brace.                           *)
DigitValue(tok) == (CHOOSE d \in 1..Len(Digits) : Digits[d] = tok) - 1

RECURSIVE ReadDigits(_, _, _)
ReadDigits(toks, i, acc) ==
    IF i <= Len(toks) /\ toks[i] \in Range(Digits)
    THEN ReadDigits(toks, i + 1, 10 * acc + DigitValue(toks[i]))
    ELSE [n |-> acc, next |-> i]

RECURSIVE ReadString(_, _, _)
ReadString(toks, i, acc) ==
    IF i > Len(toks) \/ toks[i] = "\"" THEN [s |-> acc, next |-> i + 1]
    ELSE ReadString(toks, i + 1, Append(acc, toks[i]))

ReadScalar(toks, i) ==
    IF toks[i] = "\""
    THEN LET r == ReadString(toks, i + 1, <<>>) IN [v |-> JStr(r.s), next |-> r.next]
    ELSE LET r == ReadDigits(toks, i, 0)
         IN  IF r.next <= Len(toks) /\ toks[r.next] = "."
             THEN [v |-> JFloat(2 * r.n + (IF toks[r.next + 1] = "5" THEN 1 ELSE 0)),
                   next |-> r.next + 2]
             ELSE [v |-> JInt(r.n), next |-> r.next]

RECURSIVE ReadEntries(_, _, _)
ReadEntries(toks, i, acc) ==
    IF i > Len(toks) \/ toks[i] = "}" THEN acc
    ELSE IF toks[i] = "," THEN ReadEntries(toks, i + 1, acc)
    ELSE LET key == ReadString(toks, i + 1, <<>>)
             value == ReadScalar(toks, key.next + 1)
         IN  ReadEntries(toks, value.next, Insert(acc, key.s[1], value.v))

from_str(toks) == ReadEntries(toks, 2, {})

Targets == {"Span", "Log"}

(* The fields without which a row of the target type cannot be built. *)
RequiredFields(t) ==
    IF t = "Span" THEN <<"id", "trace_id", "name", "process_id", "start">>
    ELSE <<"process_id", "time", "level">>

(* A JSON value as the Rust value of a field of its type. *)
Optional(v, ty) ==
    CASE v.t = "null" -> Null
      [] ty = "utf8" -> Utf8(v.s)
      [] OTHER -> Val(ty, v.n, <<>>)

(* One row of the target type from one row-document, by field name. *)
deserialize(t, doc) ==
    LET missing == {j \in 1..Len(RequiredFields(t)) : RequiredFields(t)[j] \notin Keys(doc)}
    IN  IF missing # {}
        THEN [ok |-> FALSE, row |-> <<>>,
              field |-> RequiredFields(t)[CHOOSE j \in missing : \A h \in missing : j <= h]]
        ELSE [ok |-> TRUE, field |-> "",
              row |-> IF t = "Span"
                      THEN [ id |-> Optional(Get(doc, "id"), "u64"),
                             parent_id |-> Optional(Get(doc, "parent_id"), "u64"),
                             trace_id |-> Optional(Get(doc, "trace_id"), "u64"),
                             name |-> Optional(Get(doc, "name"), "utf8"),
                             process_id |-> Optional(Get(doc, "process_id"), "utf8"),
                             start |-> Optional(Get(doc, "start"), "i64"),
                             end |-> Optional(Get(doc, "end"), "i64"),
                             tags |-> IF "tags" \in Keys(doc)
                                      THEN from_str(Get(doc, "tags").s) ELSE {} ]
                      ELSE [ process_id |-> Optional(Get(doc, "process_id"), "utf8"),
                             time |-> Optional(Get(doc, "time"), "i64"),
                             trace_id |-> Optional(Get(doc, "trace_id"), "u64"),
                             span_id |-> Optional(Get(doc, "span_id"), "u64"),
                             level |-> Optional(Get(doc, "level"), "utf8"),
                             message |-> Optional(Get(doc, "message"), "utf8"),
                             fields |-> {e \in doc : e.k \notin FieldNames(schema_log)} ]]

(* serde_json::from_reader::<Vec<T>>: every document must give a row. *)
from_reader(docs, t) ==
    LET bad == {i \in 1..Len(docs) : ~deserialize(t, docs[i]).ok}
    IN  IF bad # {}
        THEN [ok |-> FALSE, rows |-> <<>>,
              field |-> deserialize(t, docs[CHOOSE i \in bad : \A h \in bad : i <= h]).field]
        ELSE [ok |-> TRUE, rows |-> [i \in 1..Len(docs) |-> deserialize(t, docs[i]).row],
              field |-> ""]

(* Result::unwrap_or_default: the value, or the empty Vec on any Err. *)
unwrap_or_default(r) == IF r.ok THEN r.rows ELSE <<>>

Decoded(rows) == [kind |-> "Ok", rows |-> rows, field |-> ""]

serialize_record_batches(batch, t) ==
    IF Len(batch) = 0 THEN Decoded(<<>>)
    ELSE LET json_values == write_batches(batch)
             json_rows == unwrap_or_default(from_reader(json_values, t))
         IN  Decoded(json_rows)

(* ------------------------------ inputs -------------------------------- *)

MaxRows == 2

SeqsUpTo(S, n) == UNION {[1..m -> S] : m \in 0..n}

TagMaps ==
    { {},
      {Entry("x", JInt(1))},
      {Entry("x", JInt(12)), Entry("y", JStr(<<"a">>))},
      {Entry("y", Unrepresentable)} }

SpanRows ==
    [ id : {U64(1), U64(2)},
      parent_id : {Null, U64(1)},
      trace_id : {U64(42)},
      name : {Utf8(<<"root">>)},
      process_id : {Utf8(<<"svc-a">>)},
      start : {I64(1000)},
      end : {Null, I64(2000)},
      tags : TagMaps ]

DynValues == {JInt(3), JFloat(3), JStr(<<"x">>)}

FieldMaps ==
    {{}} \cup {{Entry(key, value)} : key \in {"count", "user", "level", "time", "trace_id"},
                                     value \in DynValues}
         \cup {{Entry("count", JInt(3)), Entry("user", JStr(<<"x">>))}}

LogRow(time, trace_id, span_id, level, message, fields) ==
    [ process_id |-> Utf8(<<"a">>), time |-> I64(time), trace_id |-> trace_id,
      span_id |-> span_id, level |-> Utf8(<<level>>), message |-> message,
      fields |-> fields ]

LogRows ==
    {LogRow(10, Null, Null, "INFO", Null, fields) : fields \in FieldMaps}
    \cup {LogRow(20, U64(42), U64(1), "WARN", Utf8(<<"m">>), fields) : fields \in FieldMaps}

MaxBatches == 2

HeldSpan(id, parent_id, tags) ==
    [ id |-> U64(id), parent_id |-> parent_id, trace_id |-> U64(42),
      name |-> Utf8(<<"root">>), process_id |-> Utf8(<<"svc-a">>),
      start |-> I64(1000), end |-> Null, tags |-> tags ]

(* A batch with only the named columns of b, as a query over it returns. *)
Project(b, names) ==
    LET keep == SelectSeq([j \in 1..Len(b.schema) |-> j], LAMBDA j : b.schema[j].name \in names)
    IN  Batch([h \in 1..Len(keep) |-> b.schema[keep[h]]],
              [h \in 1..Len(keep) |-> b.columns[keep[h]]])

(* Batches a consumer holds: what the encoders returned for a few inputs,  *)
(* and one the query engine produced from such a batch.                    *)
HeldBatches ==
    { convert_span_to_record_batch(<<>>, "s0").batch,
      Project(convert_span_to_record_batch(
                  <<HeldSpan(2, U64(1), {Entry("x", JInt(1))})>>, "s0").batch,
              {"id", "trace_id", "name", "process_id", "start"}),
      convert_span_to_record_batch(<<HeldSpan(1, Null, {Entry("x", JInt(1))})>>, "s0").batch,
      convert_span_to_record_batch(
          <<HeldSpan(2, U64(1), {}), HeldSpan(1, Null, {})>>, "s0").batch,
      convert_log_to_record_batch(
          <<LogRow(10, Null, Null, "INFO", Null, {Entry("count", JInt(3))})>>).batch,
      convert_log_to_record_batch(
          <<LogRow(20, U64(42), U64(1), "WARN", Utf8(<<"m">>), {Entry("user", JStr(<<"x">>))}),
            LogRow(10, Null, Null, "INFO", Null, {})>>).batch }

(* ------------------------------ the calls ----------------------------- *)

NoDecoded == [kind |-> "None", rows |-> <<>>, field |-> ""]

(* A caller holds the rows it is about to encode (pc names the call it     *)
(* makes next), hands a batch it got to the decoder, and is done.          *)
InitSpans ==
    /\ pc = "encode_spans"
    /\ spans \in SeqsUpTo(SpanRows, MaxRows)
    /\ seed \in Seeds
    /\ logs = <<>>
    /\ batches = <<>>

InitLogs ==
    /\ pc = "encode_logs"
    /\ logs \in SeqsUpTo(LogRows, MaxRows)
    /\ seed = "s0"
    /\ spans = <<>>
    /\ batches = <<>>

InitHeld ==
    /\ pc = "decode"
    /\ batches \in SeqsUpTo(HeldBatches, MaxBatches)
    /\ seed = "s0"
    /\ spans = <<>>
    /\ logs = <<>>

Init ==
    /\ op = "none"
    /\ result = NoResult
    /\ target = "Span"
    /\ decoded = NoDecoded
    /\ (InitSpans \/ InitLogs \/ InitHeld)

EncodeSpans ==
    /\ pc = "encode_spans"
    /\ op' = "encode_spans"
    /\ result' = convert_span_to_record_batch(spans, seed)
    /\ batches' = IF result'.kind = "Ok" THEN <<result'.batch>> ELSE <<>>
    /\ pc' = IF result'.kind = "Ok" THEN "decode" ELSE "done"
    /\ UNCHANGED <<spans, logs, seed, target, decoded>>

EncodeLogs ==
    /\ pc = "encode_logs"
    /\ op' = "encode_logs"
    /\ result' = convert_log_to_record_batch(logs)
    /\ batches' = IF result'.kind = "Ok" THEN <<result'.batch>> ELSE <<>>
    /\ pc' = IF result'.kind = "Ok" THEN "decode" ELSE "done"
    /\ UNCHANGED <<spans, logs, seed, target, decoded>>

Decode ==
    /\ pc = "decode"
    /\ \E t \in Targets :
          /\ target' = t
          /\ decoded' = serialize_record_batches(batches, t)
    /\ op' = "decode"
    /\ pc' = "done"
    /\ UNCHANGED <<spans, logs, seed, result, batches>>

Next == EncodeSpans \/ EncodeLogs \/ Decode

Spec == Init /\ [][Next]_vars

(* ------------------------------ properties ---------------------------- *)

(* C1: decoding, as Spans, the batch convert_span_to_record_batch gave for *)
(* a non-empty sequence of Spans returns the same number of rows, the i-th *)
(* equal to the i-th input row in every field; tags are compared as maps,  *)
(* so the order of their keys in the serialized text does not count.       *)
SpanRoundTrip ==
    (op = "decode" /\ spans # <<>> /\ target = "Span" /\ batches = <<result.batch>>)
        => /\ decoded.kind = "Ok"
           /\ Len(decoded.rows) = Len(spans)
           /\ \A i \in 1..Len(spans) :
                /\ decoded.rows[i].id = spans[i].id
                /\ decoded.rows[i].parent_id = spans[i].parent_id
                /\ decoded.rows[i].trace_id = spans[i].trace_id
                /\ decoded.rows[i].name = spans[i].name
                /\ decoded.rows[i].process_id = spans[i].process_id
                /\ decoded.rows[i].start = spans[i].start
                /\ decoded.rows[i].end = spans[i].end
                /\ decoded.rows[i].tags = spans[i].tags

SpanRoundTripWitness ==
    /\ op = "decode" /\ target = "Span" /\ batches = <<result.batch>>
    /\ Len(spans) > 1
    /\ seed = "s1"
    /\ \E i \in 1..Len(spans) : Cardinality(spans[i].tags) > 1 /\ spans[i].parent_id # Null
    /\ \E i \in 1..Len(spans) : spans[i].tags = {} /\ spans[i].end = Null
    /\ decoded.rows = spans

(* Some row-document of some batch lacks a field the target type requires. *)
LacksRequired ==
    \E b \in 1..Len(batches) :
        \E i \in 1..NumRows(batches[b]) :
            \E f \in Range(RequiredFields(target)) :
                \A j \in 1..Len(batches[b].schema) :
                    batches[b].schema[j].name = f => batches[b].columns[j][i] = Null

(* C2: when a row-document lacks a field the target type requires,         *)
(* serialize_record_batches returns an error naming a field, never a       *)
(* success.                                                                *)
DecodeFailureSurfaced ==
    (op = "decode" /\ LacksRequired) => (decoded.kind = "Err" /\ decoded.field # "")

(* C3: each of the three operations succeeds on empty input: the encoders  *)
(* with a batch of no rows, the decoder with an empty sequence.            *)
EmptyInputIsSuccess ==
    /\ (op = "encode_spans" /\ spans = <<>>)
          => (result.kind = "Ok" /\ NumRows(result.batch) = 0)
    /\ (op = "encode_logs" /\ logs = <<>>)
          => (result.kind = "Ok" /\ NumRows(result.batch) = 0)
    /\ (op = "decode" /\ batches = <<>>)
          => (decoded.kind = "Ok" /\ decoded.rows = <<>>)

FixedLogNames == <<"process_id", "time", "trace_id", "span_id", "level", "message">>

DynamicKeys == UNION {Keys(logs[i].fields) : i \in 1..Len(logs)}

(* C4: a fields key that is the name of a fixed column makes              *)
(* convert_log_to_record_batch return a merge error naming that column,    *)
(* whatever the type of its value; no batch is produced.                   *)
ShadowingRejected ==
    (op = "encode_logs" /\ DynamicKeys \cap Range(FixedLogNames) # {})
        => /\ result.kind = "Err"
           /\ result.stage = "try_merge"
           /\ result.field \in DynamicKeys \cap Range(FixedLogNames)

Numeric(v) == v.t \in {"int", "float"}

(* Two values no one column type holds: of different types, not both numbers. *)
Incompatible(v, w) == v.t # w.t /\ ~(Numeric(v) /\ Numeric(w))

ConflictingKeys ==
    {key \in DynamicKeys :
        \E i, j \in 1..Len(logs) :
            /\ key \in Keys(logs[i].fields) /\ key \in Keys(logs[j].fields)
            /\ Incompatible(Get(logs[i].fields, key), Get(logs[j].fields, key))}

(* C5: two rows binding one key to values of incompatible types make       *)
(* convert_log_to_record_batch return a schema inference error naming the  *)
(* key; no batch is produced.                                              *)
TypeConflictIsInferenceError ==
    (op = "encode_logs" /\ ConflictingKeys # {})
        => /\ result.kind = "Err"
           /\ result.stage = "infer"
           /\ result.field \in ConflictingKeys

FixedLogColumns ==
    << [name |-> "process_id", data_type |-> "Utf8", nullable |-> FALSE],
       [name |-> "time", data_type |-> "Int64", nullable |-> FALSE],
       [name |-> "trace_id", data_type |-> "UInt64", nullable |-> TRUE],
       [name |-> "span_id", data_type |-> "UInt64", nullable |-> TRUE],
       [name |-> "level", data_type |-> "Utf8", nullable |-> FALSE],
       [name |-> "message", data_type |-> "Utf8", nullable |-> TRUE] >>

(* C6: for a non-empty sequence of Logs whose fields are all empty, the    *)
(* batch has exactly the six fixed log columns, in order, with their types *)
(* and nullability, and one row per input row.                             *)
EmptyFieldsGiveFixedSchema ==
    (op = "encode_logs" /\ logs # <<>> /\ DynamicKeys = {})
        => /\ result.kind = "Ok"
           /\ result.batch.schema = FixedLogColumns
           /\ Len(result.batch.columns) = Len(FixedLogColumns)
           /\ \A j \in 1..Len(result.batch.columns) :
                Len(result.batch.columns[j]) = Len(logs)

EmptyFieldsWitness ==
    /\ op = "encode_logs" /\ Len(logs) > 1 /\ DynamicKeys = {}
    /\ logs[1] # logs[2]
    /\ result.kind = "Ok" /\ NumRows(result.batch) = Len(logs)

(* The cell of row i in the column called name (null when there is none). *)
Cell(b, name, i) ==
    IF name \in FieldNames(b.schema)
    THEN b.columns[CHOOSE j \in 1..Len(b.schema) : b.schema[j].name = name][i]
    ELSE Null

(* The cell holds the JSON value: the same text, or the same number. *)
Holds(cell, v) ==
    CASE v.t = "str" -> cell.t = "utf8" /\ cell.s = v.s
      [] v.t = "int" -> \/ cell.t \in {"i64", "u64"} /\ cell.n = v.n
                        \/ cell.t = "f64" /\ cell.n = 2 * v.n
      [] v.t = "float" -> cell.t = "f64" /\ cell.n = v.n
      [] OTHER -> cell = Null

(* C7: when no key conflicts in type or is the name of a fixed column, the *)
(* batch has one row per input row, in input order; its columns are the    *)
(* six fixed ones in order, then one per distinct key of any row; and the  *)
(* cell of row i for key k holds row i's value for k, or null when row i   *)
(* has no k.                                                               *)
DynamicColumns ==
    (/\ op = "encode_logs" /\ logs # <<>>
     /\ ConflictingKeys = {}
     /\ DynamicKeys \cap Range(FixedLogNames) = {})
        => /\ result.kind = "Ok"
           /\ NumRows(result.batch) = Len(logs)
           /\ Len(result.batch.schema) = Len(FixedLogNames) + Cardinality(DynamicKeys)
           /\ Len(result.batch.columns) = Len(result.batch.schema)
           /\ \A j \in 1..Len(FixedLogNames) : result.batch.schema[j].name = FixedLogNames[j]
           /\ {result.batch.schema[j].name :
                  j \in (Len(FixedLogNames) + 1)..Len(result.batch.schema)} = DynamicKeys
           /\ \A i \in 1..Len(logs) :
                /\ Cell(result.batch, "process_id", i) = logs[i].process_id
                /\ Cell(result.batch, "time", i) = logs[i].time
                /\ Cell(result.batch, "trace_id", i) = logs[i].trace_id
                /\ Cell(result.batch, "span_id", i) = logs[i].span_id
                /\ Cell(result.batch, "level", i) = logs[i].level
                /\ Cell(result.batch, "message", i) = logs[i].message
                /\ \A key \in DynamicKeys :
                     IF key \in Keys(logs[i].fields)
                     THEN Holds(Cell(result.batch, key, i), Get(logs[i].fields, key))
                     ELSE Cell(result.batch, key, i) = Null

DynamicColumnsWitness ==
    /\ op = "encode_logs" /\ Len(logs) > 1
    /\ logs[1].fields = {Entry("count", JInt(3))}
    /\ logs[2].fields = {}
    /\ logs[1].time # logs[2].time
    /\ result.kind = "Ok"
    /\ [j \in 1..Len(result.batch.schema) |-> result.batch.schema[j].name]
          = FixedLogNames \o <<"count">>
    /\ Cell(result.batch, "count", 1) = I64(3)
    /\ Cell(result.batch, "count", 2) = Null

RECURSIVE RowsBefore(_)
RowsBefore(b) == IF b = 1 THEN 0 ELSE RowsBefore(b - 1) + NumRows(batches[b - 1])

(* The field of a decoded row that identifies it, and its column. *)
RowKey(row) == IF target = "Span" THEN row.id ELSE row.time

KeyColumn == IF target = "Span" THEN "id" ELSE "time"

OptionalFields == IF target = "Span" THEN {"parent_id", "end"} ELSE {"trace_id", "span_id", "message"}

(* C8: when every row-document has the fields the target type requires,    *)
(* the decoder returns the rows of the batches one batch after the other,  *)
(* in the order of the batches and of the rows in each, as many as the     *)
(* batches have rows; a field the type does not require, of a column the   *)
(* batch does not have, is absent in the row.                              *)
DecodeOrder ==
    (op = "decode" /\ batches # <<>> /\ ~LacksRequired)
        => /\ decoded.kind = "Ok"
           /\ Len(decoded.rows) = RowsBefore(Len(batches) + 1)
           /\ \A b \in 1..Len(batches) :
                \A i \in 1..NumRows(batches[b]) :
                    LET row == decoded.rows[RowsBefore(b) + i]
                    IN  /\ RowKey(row) = Cell(batches[b], KeyColumn, i)
                        /\ \A f \in OptionalFields : row[f] = Cell(batches[b], f, i)
                        /\ target = "Log" =>
                              \A e \in row.fields : e.k \in FieldNames(batches[b].schema)

DecodeOrderWitness ==
    /\ op = "decode" /\ Len(batches) > 1 /\ ~LacksRequired
    /\ FieldNames(batches[1].schema) # FieldNames(batches[2].schema)
    /\ NumRows(batches[1]) > 1
    /\ NumRows(batches[2]) > 0
    /\ \E f \in OptionalFields : f \notin FieldNames(batches[2].schema)
    /\ RowKey(decoded.rows[1]) # RowKey(decoded.rows[2])
    /\ Len(decoded.rows) = NumRows(batches[1]) + NumRows(batches[2])

SpanColumns ==
    << [name |-> "id", data_type |-> "UInt64", nullable |-> FALSE],
       [name |-> "parent_id", data_type |-> "UInt64", nullable |-> TRUE],
       [name |-> "trace_id", data_type |-> "UInt64", nullable |-> FALSE],
       [name |-> "name", data_type |-> "Utf8", nullable |-> FALSE],
       [name |-> "process_id", data_type |-> "Utf8", nullable |-> FALSE],
       [name |-> "start", data_type |-> "Int64", nullable |-> FALSE],
       [name |-> "end", data_type |-> "Int64", nullable |-> TRUE],
       [name |-> "tags", data_type |-> "Utf8", nullable |-> TRUE] >>

Serializable(rows) == \A i \in 1..Len(rows) : \A e \in rows[i].tags : e.v.t # "unrepr"

(* C9: convert_span_to_record_batch of the empty sequence succeeds with a  *)
(* batch of no rows that has the eight span columns, in order, with their  *)
(* types and nullability; the batch of a non-empty sequence has the same   *)
(* schema.                                                                 *)
SpanSchemaCarried ==
    (op = "encode_spans" /\ Serializable(spans))
        => /\ result.kind = "Ok"
           /\ result.batch.schema = SpanColumns
           /\ Len(result.batch.columns) = Len(SpanColumns)
           /\ \A j \in 1..Len(result.batch.columns) :
                Len(result.batch.columns[j]) = Len(spans)

SpanSchemaEmptyWitness ==
    /\ op = "encode_spans" /\ spans = <<>>
    /\ result.kind = "Ok" /\ NumRows(result.batch) = 0
    /\ result.batch.schema = SpanColumns

(* C10: a Span whose tags cannot be serialized makes                       *)
(* convert_span_to_record_batch return an error to its caller; it does     *)
(* not panic and produces no batch.                                        *)
UnserializableTagsIsError ==
    (op = "encode_spans" /\ ~Serializable(spans))
        => (result.kind = "Err" /\ result.stage = "to_string")

====
